---- MODULE Spec2Model ----
(***************************************************************************)
(* The announcement-driven replication trigger of qaku-cache.              *)
(*                                                                         *)
(* The repository holds two generations of the handler:                    *)
(*   - func cache            (src/main.go), started as `go cache(envelope)`*)
(*     for every envelope of the filter subscription;                      *)
(*   - Cache.OnNewEnvelope   (src/unnamed/part_001), called synchronously  *)
(*     from the goroutine that drains node.MsgChan.                        *)
(* `program` selects which of the two binaries is running.                 *)
(***************************************************************************)
EXTENDS Integers, Sequences, FiniteSets, TLC

\* ------------------------------------------------------------------ bounds
\* number of envelopes the bus delivers in one run
MaxEnvelopes == 2

\* --------------------------------------------------------------- constants
contentTopic == "/0/qaku/1/persist/json"
otherTopic == "/0/qaku/1/questions/json"
defaultMaxSize == 5 * 1024 * 1024
StatusOK == 200

\* snapSizes bucket upper bounds (kilobytes); the last bucket is +Inf
Buckets == <<100, 200, 500, 1000, 2000, 5000, 10000, 20000>>

Programs == {"cache", "OnNewEnvelope"}
Topics == {contentTopic, otherTopic}

\* ------------------------------------------------------------------ inputs
\* Values of the QAKU_CACHE_MAX_SIZE environment variable, as character
\* sequences: unset (empty) and "10485760"
EnvValues ==
  { <<>>,
    <<"1", "0", "4", "8", "5", "7", "6", "0">> }

\* Raw announcement payloads, described by the JSON they contain.
\*   syntax      "ok" when the bytes are a JSON text, "bad" otherwise
\*   top         kind of the top-level JSON value
\*   payloadKind kind of the "payload" member ("absent" when missing)
\*   cidKind     kind of the "payload"."cid" member
\*   cid         the string value of "payload"."cid" when cidKind = "string"
\*   restOk      TRUE when type/timestamp/signature/signer/owner/hash are
\*               absent, null or of the Go field's type
Announcements ==
  << \* 1 {"type":"persist","payload":{"cid":"zCID1","owner":"alice","hash":"h1"},"timestamp":1700000000}
     [syntax |-> "ok", top |-> "object", payloadKind |-> "object",
      cidKind |-> "string", cid |-> "zCID1", restOk |-> TRUE],
     \* 2 {"type":"persist","payload":{"cid":"zCID2","owner":"bob","hash":"h2"},"timestamp":1700000001}
     [syntax |-> "ok", top |-> "object", payloadKind |-> "object",
      cidKind |-> "string", cid |-> "zCID2", restOk |-> TRUE],
     \* 3 not json
     [syntax |-> "bad", top |-> "none", payloadKind |-> "absent",
      cidKind |-> "absent", cid |-> "", restOk |-> TRUE],
     \* 4 {"type":"persist","payload":{"owner":"alice","hash":"h1"},"timestamp":1700000000}
     [syntax |-> "ok", top |-> "object", payloadKind |-> "object",
      cidKind |-> "absent", cid |-> "", restOk |-> TRUE],
     \* 5 {"type":"persist","payload":{"cid":7,"owner":"alice","hash":"h1"},"timestamp":1700000000}
     [syntax |-> "ok", top |-> "object", payloadKind |-> "object",
      cidKind |-> "number", cid |-> "", restOk |-> TRUE] >>

\* datasetSize values the storage network reports
DatasetSizes == {5242880, 5242881, 20000000}

\* Bodies of a manifest answer.
\*   syntax       "ok" when the body is a JSON text
\*   manifestKind kind of the "manifest" member
\*   sizeKind     kind of "manifest"."datasetSize"
\*   datasetSize  its value when sizeKind = "number"
NoBody == [syntax |-> "bad", manifestKind |-> "absent", sizeKind |-> "absent",
           datasetSize |-> 0]

ManifestBodies ==
  { NoBody } \cup
  \* {"cid":"zCID1","manifest":{"datasetSize":"big"}}
  { [syntax |-> "ok", manifestKind |-> "object", sizeKind |-> "string",
     datasetSize |-> 0] } \cup
  \* {"cid":"zCID1","manifest":{"datasetSize":N,"blockSize":65536,...}}
  { [syntax |-> "ok", manifestKind |-> "object", sizeKind |-> "number",
     datasetSize |-> n] : n \in DatasetSizes }

\* What http.Get of the manifest can produce.
ManifestResponses ==
  { [transport |-> "error", status |-> 0, read |-> "ok", body |-> NoBody] } \cup
  { [transport |-> "ok", status |-> 404, read |-> "ok", body |-> NoBody] } \cup
  { [transport |-> "ok", status |-> StatusOK, read |-> "error", body |-> NoBody] } \cup
  { [transport |-> "ok", status |-> StatusOK, read |-> "ok", body |-> b] :
       b \in ManifestBodies }

\* What http.Post of the trigger can produce.
TriggerResponses ==
  { [transport |-> "error", status |-> 0],
    [transport |-> "ok", status |-> StatusOK],
    [transport |-> "ok", status |-> 500] }

\* ------------------------------------------------------------------- state
VARIABLES
  program,         \* which binary runs
  env,             \* value of QAKU_CACHE_MAX_SIZE
  mainpc,          \* position of main(): "start", "loop"
  maxDatasetSize,  \* package variable maxDatasetSize
  snapSuccess,     \* counter qaku_cache_successes
  snapFailure,     \* counter qaku_cache_failures
  snapSizes,       \* histogram qaku_cache_sizes
  delivered,       \* number of envelopes the bus has handed over
  ex               \* one handler invocation per envelope

vars == <<program, env, mainpc, maxDatasetSize, snapSuccess, snapFailure,
          snapSizes, delivered, ex>>

Execs == 1..MaxEnvelopes

\* ------------------------------------------------------------ strconv.Atoi
DigitChars == {"0", "1", "2", "3", "4", "5", "6", "7", "8", "9"}

DigitVal(c) ==
  CASE c = "0" -> 0 [] c = "1" -> 1 [] c = "2" -> 2 [] c = "3" -> 3
    [] c = "4" -> 4 [] c = "5" -> 5 [] c = "6" -> 6 [] c = "7" -> 7
    [] c = "8" -> 8 [] c = "9" -> 9

\* int is 64 bits wide in the build the Makefile makes (go build on a
\* 64-bit host, cgo against libwaku).  A Go integer is kept as a sign and a
\* magnitude in three limbs of seven decimal digits,
\*   hi * Limb^2 + mid * Limb + lo,
\* since 2^64 does not fit the integers of the checker.
IntSize == 64
Limb == 10000000

\* the Go integer with value n, for an n the checker can hold
GoInt(n) ==
  [neg |-> n < 0,
   hi  |-> 0,
   mid |-> (IF n < 0 THEN 0 - n ELSE n) \div Limb,
   lo  |-> (IF n < 0 THEN 0 - n ELSE n) % Limb]

\* a < b for magnitudes
MagLess(a, b) ==
  \/ a.hi < b.hi
  \/ a.hi = b.hi /\ a.mid < b.mid
  \/ a.hi = b.hi /\ a.mid = b.mid /\ a.lo < b.lo

\* a < b for Go integers
IntLess(a, b) ==
  IF a.neg # b.neg THEN a.neg
  ELSE IF a.neg THEN MagLess(b, a) ELSE MagLess(a, b)

IsZero(n) == n.hi = 0 /\ n.mid = 0 /\ n.lo = 0

\* -n
Negate(n) == IF IsZero(n) THEN n ELSE [n EXCEPT !.neg = ~@]

\* n*10 + d on magnitudes
MulAdd(n, d) ==
  LET lo10  == n.lo * 10 + d
      mid10 == n.mid * 10 + lo10 \div Limb
  IN  [neg |-> FALSE,
       hi  |-> n.hi * 10 + mid10 \div Limb,
       mid |-> mid10 % Limb,
       lo  |-> lo10 % Limb]

\* 1<<64 - 1, maxUint64/10 + 1, 1<<63 and 1<<63 - 1
MaxUint64 == [neg |-> FALSE, hi |-> 184467, mid |-> 4407370, lo |-> 9551615]
UintCutoff == [neg |-> FALSE, hi |-> 18446, mid |-> 7440737, lo |-> 955162]
IntCutoff == [neg |-> FALSE, hi |-> 92233, mid |-> 7203685, lo |-> 4775808]
MaxInt == [neg |-> FALSE, hi |-> 92233, mid |-> 7203685, lo |-> 4775807]

\* strconv.ParseUint(s, 10, 0), with n the value of the characters read so
\* far: a character that is no digit is a syntax error, a digit that takes
\* the value over 1<<64 - 1 is a range error, whichever comes first
RECURSIVE ParseUint(_, _)
ParseUint(s, n) ==
  IF s = <<>> THEN [value |-> n, err |-> "nil"]
  ELSE IF Head(s) \notin DigitChars
  THEN [value |-> GoInt(0), err |-> "invalid syntax"]
  ELSE IF ~MagLess(n, UintCutoff)
  THEN [value |-> MaxUint64, err |-> "value out of range"]
  ELSE LET n1 == MulAdd(n, DigitVal(Head(s)))
       IN  IF MagLess(MaxUint64, n1)
           THEN [value |-> MaxUint64, err |-> "value out of range"]
           ELSE ParseUint(Tail(s), n1)

\* strconv.ParseInt(s, 10, 0): a syntax error gives 0, a range error the
\* nearest int
ParseInt(s) ==
  IF s = <<>> THEN [value |-> GoInt(0), err |-> "invalid syntax"]
  ELSE LET neg    == Head(s) = "-"
           digits == IF Head(s) \in {"+", "-"} THEN Tail(s) ELSE s
           un     == IF digits = <<>>
                     THEN [value |-> GoInt(0), err |-> "invalid syntax"]
                     ELSE ParseUint(digits, GoInt(0))
       IN  IF un.err = "invalid syntax" THEN un
           ELSE IF ~neg /\ ~MagLess(un.value, IntCutoff)
           THEN [value |-> MaxInt, err |-> "value out of range"]
           ELSE IF neg /\ MagLess(IntCutoff, un.value)
           THEN [value |-> Negate(IntCutoff), err |-> "value out of range"]
           ELSE [value |-> IF neg THEN Negate(un.value) ELSE un.value,
                 err |-> "nil"]

\* the loop of Atoi's fast path: n = n*10 + int(ch), no range check
RECURSIVE AtoiFast(_, _)
AtoiFast(s, n) ==
  IF s = <<>> THEN [value |-> n, err |-> "nil"]
  ELSE IF Head(s) \notin DigitChars
  THEN [value |-> GoInt(0), err |-> "invalid syntax"]
  ELSE AtoiFast(Tail(s), MulAdd(n, DigitVal(Head(s))))

\* strconv.Atoi: the fast path for strings of 1 to 18 characters, ParseInt
\* for the others
Atoi(s) ==
  IF IntSize = 64 /\ 0 < Len(s) /\ Len(s) < 19
  THEN LET digits == IF Head(s) \in {"+", "-"} THEN Tail(s) ELSE s
           r      == AtoiFast(digits, GoInt(0))
       IN  IF digits = <<>>
           THEN [value |-> GoInt(0), err |-> "invalid syntax"]
           ELSE IF r.err = "nil" /\ Head(s) = "-"
           THEN [value |-> Negate(r.value), err |-> "nil"]
           ELSE r
  ELSE ParseInt(s)

\* ---------------------------------------------------------- json.Unmarshal
\* json.Unmarshal(payload, &QakuMessage{}): the error and the decoded CID
UnmarshalQakuMessageLenient(p) ==
  [err |-> "nil",
   cid |-> IF p.syntax = "ok" /\ p.payloadKind = "object" /\ p.cidKind = "string"
           THEN p.cid ELSE ""]

UnmarshalQakuMessage(p) ==
  IF p.syntax # "ok" THEN [err |-> "unmarshal", cid |-> ""]
  ELSE IF p.top = "null" THEN [err |-> "nil", cid |-> ""]
  ELSE IF p.top # "object" THEN [err |-> "unmarshal", cid |-> ""]
  ELSE [err |-> IF /\ p.payloadKind \in {"object", "absent", "null"}
                   /\ (p.payloadKind = "object" =>
                          p.cidKind \in {"string", "absent", "null"})
                   /\ p.restOk
                THEN "nil" ELSE "unmarshal",
        cid |-> IF p.payloadKind = "object" /\ p.cidKind = "string"
                THEN p.cid ELSE ""]

\* json.Unmarshal(body, &CodexDataContent{}): the error and DatasetSize
UnmarshalCodexDataContent(b) ==
  IF b.syntax # "ok" THEN [err |-> "unmarshal manifest", datasetSize |-> 0]
  ELSE [err |-> IF /\ b.manifestKind \in {"object", "absent", "null"}
                   /\ (b.manifestKind = "object" =>
                          b.sizeKind \in {"number", "absent", "null"})
                THEN "nil" ELSE "unmarshal manifest",
        datasetSize |-> IF b.manifestKind = "object" /\ b.sizeKind = "number"
                        THEN b.datasetSize ELSE 0]

\* ------------------------------------------------------------- prometheus
\* float64(n) / 1024 is exact: whole + frac/1024
KilobytesTruncated(n) == [whole |-> n \div 1024, frac |-> 0]

Kilobytes(n) == [whole |-> n \div 1024, frac |-> n % 1024]

\* v <= b for a kilobyte value v and an integer bound b
KbLeq(v, b) == v.whole < b \/ (v.whole = b /\ v.frac = 0)

\* index of the bucket an observation falls in; Len(Buckets)+1 is +Inf
BucketOf(v) ==
  IF \E i \in 1..Len(Buckets) : KbLeq(v, Buckets[i])
  THEN CHOOSE i \in 1..Len(Buckets) :
         /\ KbLeq(v, Buckets[i])
         /\ \A j \in 1..(i - 1) : ~KbLeq(v, Buckets[j])
  ELSE Len(Buckets) + 1

\* sum of two kilobyte values
KbAdd(a, b) ==
  [whole |-> a.whole + b.whole + ((a.frac + b.frac) \div 1024),
   frac  |-> (a.frac + b.frac) % 1024]

\* Histogram.Observe
Observe(h, v) ==
  [count   |-> h.count + 1,
   sum     |-> KbAdd(h.sum, v),
   buckets |-> [h.buckets EXCEPT ![BucketOf(v)] = @ + 1]]

EmptyHistogram ==
  [count |-> 0, sum |-> [whole |-> 0, frac |-> 0],
   buckets |-> [i \in 1..(Len(Buckets) + 1) |-> 0]]

\* ----------------------------------------------------------------- handler
\* locals of one invocation, plus what it has sent and recorded so far
NoExec ==
  [pc |-> "idle", topic |-> "", payload |-> 0, cid |-> "", err |-> "nil",
   status |-> 0, datasetSize |-> 0, respStatus |-> 0, sent |-> <<>>,
   incSuccess |-> 0, incFailure |-> 0, observed |-> <<>>]

Init ==
  /\ program \in Programs
  /\ env \in EnvValues
  /\ mainpc = "start"
  /\ maxDatasetSize = GoInt(defaultMaxSize)
  /\ snapSuccess = 0
  /\ snapFailure = 0
  /\ snapSizes = EmptyHistogram
  /\ delivered = 0
  /\ ex = [e \in Execs |-> NoExec]

\* main(): read the size override
Startup ==
  /\ mainpc = "start"
  /\ mainpc' = "loop"
  /\ LET maxSizeFromEnv == Atoi(env).value
     IN  maxDatasetSize' = IF IntLess(GoInt(0), maxSizeFromEnv)
                           THEN maxSizeFromEnv
                           ELSE maxDatasetSize
  /\ UNCHANGED <<program, env, snapSuccess, snapFailure, snapSizes,
                 delivered, ex>>

\* ----------------------------------------------------- startup on its own
\* longest short value of QAKU_CACHE_MAX_SIZE tried at startup
MaxEnvLen == 3

EnvAlphabet == {"-", "+", "0", "1", "7", "a"}

\* 1<<63 - 1 and 1<<63 in decimal
MaxIntDigits ==
  <<"9", "2", "2", "3", "3", "7", "2", "0", "3", "6",
    "8", "5", "4", "7", "7", "5", "8", "0", "7">>
IntCutoffDigits ==
  <<"9", "2", "2", "3", "3", "7", "2", "0", "3", "6",
    "8", "5", "4", "7", "7", "5", "8", "0", "8">>

\* every string of at most MaxEnvLen characters, and "10485760",
\* "3000000000", the largest int, the values next to the two ends of int,
\* "99999999999999999999", "-99999999999999999999",
\* "99999999999999999999a" and "12a99999999999999999999"
StartupEnvValues ==
  UNION { [1..k -> EnvAlphabet] : k \in 0..MaxEnvLen } \cup
  { <<"1", "0", "4", "8", "5", "7", "6", "0">>,
    <<"3", "0", "0", "0", "0", "0", "0", "0", "0", "0">>,
    MaxIntDigits,
    IntCutoffDigits,
    <<"-">> \o IntCutoffDigits,
    [i \in 1..20 |-> "9"],
    <<"-">> \o [i \in 1..20 |-> "9"],
    [i \in 1..20 |-> "9"] \o <<"a">>,
    <<"1", "2", "a">> \o [i \in 1..20 |-> "9"] }

InitStartup ==
  /\ program \in Programs
  /\ env \in StartupEnvValues
  /\ mainpc = "start"
  /\ maxDatasetSize = GoInt(defaultMaxSize)
  /\ snapSuccess = 0
  /\ snapFailure = 0
  /\ snapSizes = EmptyHistogram
  /\ delivered = 0
  /\ ex = [e \in Execs |-> NoExec]

NextStartup == Startup

SpecStartup == InitStartup /\ [][NextStartup]_vars

\* the deferred func() { if err != nil { snapFailure.Inc() } }
DeferredAlways(err) == 1

DeferredNever(err) == 0

Deferred(err) == IF err # "nil" THEN 1 ELSE 0

\* the size check: cdc.Manifest.DatasetSize > maxDatasetSize
TooBigNever(size, max) == FALSE

TooBigByTwo(size, max) == IntLess(max, GoInt(size - 1))

TooBigOrEqual(size, max) == ~IntLess(GoInt(size), max)

TooBig(size, max) == IntLess(max, GoInt(size))

\* an invocation that is running
InFlight(e) == ex[e].pc \in {"Received", "Decoded", "ManifestAnswered",
                             "ManifestResolved", "ReplicationTriggered"}

ManifestURL(cid) == [method |-> "GET", cid |-> cid, path |-> "network/manifest"]

TriggerURLAsGet(cid) == [method |-> "GET", cid |-> cid, path |-> "network"]

TriggerURL(cid) == [method |-> "POST", cid |-> cid, path |-> "network"]

\* ------------------------------------------------------- main.go: delivery
\* the filter subscription hands over envelopes of contentTopic only, and
\* main starts one goroutine per envelope
MainLoopDedup ==
  /\ program = "cache"
  /\ mainpc = "loop"
  /\ delivered < MaxEnvelopes
  /\ \E t \in Topics, p \in 1..Len(Announcements) :
       /\ delivered' = delivered + 1
       /\ ex' = [ex EXCEPT ![delivered + 1] =
                   [NoExec EXCEPT !.topic = t, !.payload = p,
                      !.pc = IF /\ t = contentTopic
                                /\ \A f \in Execs : ex[f].payload # p
                             THEN "Received" ELSE "Skipped"]]
  /\ UNCHANGED <<program, env, mainpc, maxDatasetSize, snapSuccess,
                 snapFailure, snapSizes>>

MainLoop ==
  /\ program = "cache"
  /\ mainpc = "loop"
  /\ delivered < MaxEnvelopes
  /\ \E t \in Topics, p \in 1..Len(Announcements) :
       /\ delivered' = delivered + 1
       /\ ex' = [ex EXCEPT ![delivered + 1] =
                   [NoExec EXCEPT !.topic = t,
                      !.payload = IF t = contentTopic THEN p ELSE 0,
                      !.pc = IF t = contentTopic THEN "Received"
                             ELSE "Skipped"]]
  /\ UNCHANGED <<program, env, mainpc, maxDatasetSize, snapSuccess,
                 snapFailure, snapSizes>>

\* ------------------------------------------------------ part_001: delivery
\* the goroutine draining node.MsgChan calls the handler itself, so it takes
\* the next envelope only after the previous call has returned
MsgChanLoopStopsOnError ==
  /\ program = "OnNewEnvelope"
  /\ mainpc = "loop"
  /\ delivered < MaxEnvelopes
  /\ \A e \in Execs : ~InFlight(e) /\ ex[e].err = "nil"
  /\ \E t \in Topics, p \in 1..Len(Announcements) :
       /\ delivered' = delivered + 1
       /\ ex' = [ex EXCEPT ![delivered + 1] =
                   [NoExec EXCEPT !.topic = t,
                      !.payload = IF t = contentTopic THEN p ELSE 0,
                      !.pc = IF t = contentTopic THEN "Received"
                             ELSE "Skipped"]]
  /\ UNCHANGED <<program, env, mainpc, maxDatasetSize, snapSuccess,
                 snapFailure, snapSizes>>

MsgChanLoopNoFilter ==
  /\ program = "OnNewEnvelope"
  /\ mainpc = "loop"
  /\ delivered < MaxEnvelopes
  /\ \A e \in Execs : ~InFlight(e)
  /\ \E t \in Topics, p \in 1..Len(Announcements) :
       /\ delivered' = delivered + 1
       /\ ex' = [ex EXCEPT ![delivered + 1] =
                   [NoExec EXCEPT !.topic = t, !.payload = p,
                      !.pc = "Received"]]
  /\ UNCHANGED <<program, env, mainpc, maxDatasetSize, snapSuccess,
                 snapFailure, snapSizes>>

MsgChanLoop ==
  /\ program = "OnNewEnvelope"
  /\ mainpc = "loop"
  /\ delivered < MaxEnvelopes
  /\ \A e \in Execs : ~InFlight(e)
  /\ \E t \in Topics, p \in 1..Len(Announcements) :
       /\ delivered' = delivered + 1
       /\ ex' = [ex EXCEPT ![delivered + 1] =
                   [NoExec EXCEPT !.topic = t,
                      !.payload = IF t = contentTopic THEN p ELSE 0,
                      !.pc = IF t = contentTopic THEN "Received"
                             ELSE "Skipped"]]
  /\ UNCHANGED <<program, env, mainpc, maxDatasetSize, snapSuccess,
                 snapFailure, snapSizes>>

\* ------------------------------------------------------ main.go: cache()
\* json.Unmarshal of the payload, then http.Get of the manifest
cacheDecode(e) ==
  /\ program = "cache"
  /\ ex[e].pc = "Received"
  /\ LET cr == UnmarshalQakuMessage(Announcements[ex[e].payload])
     IN  IF cr.err # "nil"
         THEN /\ ex' = [ex EXCEPT ![e].err = cr.err, ![e].pc = "Returned",
                           ![e].incFailure = @ + Deferred(cr.err)]
              /\ snapFailure' = snapFailure + Deferred(cr.err)
         ELSE /\ ex' = [ex EXCEPT ![e].cid = cr.cid, ![e].pc = "Decoded",
                           ![e].sent = Append(@, ManifestURL(cr.cid))]
              /\ UNCHANGED snapFailure
  /\ UNCHANGED <<program, env, mainpc, maxDatasetSize, snapSuccess,
                 snapSizes, delivered>>

\* the answer to http.Get of the manifest: transport error or status
cacheManifest(e) ==
  /\ program = "cache"
  /\ ex[e].pc = "Decoded"
  /\ \E r \in ManifestResponses :
       LET err == IF r.transport # "ok" THEN "get" ELSE "nil"
           goesOn == r.transport = "ok" /\ r.status = StatusOK
       IN  /\ ex' = [ex EXCEPT ![e].err = err,
                        ![e].status = r.status,
                        ![e].pc = IF goesOn THEN "ManifestAnswered"
                                  ELSE "Returned",
                        ![e].incFailure =
                           IF goesOn THEN @ ELSE @ + Deferred(err)]
           /\ snapFailure' = IF goesOn THEN snapFailure
                             ELSE snapFailure + Deferred(err)
  /\ UNCHANGED <<program, env, mainpc, maxDatasetSize, snapSuccess,
                 snapSizes, delivered>>

\* ioutil.ReadAll of the body of a 200 answer, then json.Unmarshal
cacheReadAll(e) ==
  /\ program = "cache"
  /\ ex[e].pc = "ManifestAnswered"
  /\ \E r \in ManifestResponses :
       /\ r.transport = "ok"
       /\ r.status = StatusOK
       /\ LET cdc == UnmarshalCodexDataContent(r.body)
              err == IF r.read # "ok" THEN "read" ELSE cdc.err
              goesOn == err = "nil"
          IN  /\ ex' = [ex EXCEPT ![e].err = err,
                           ![e].datasetSize =
                              IF goesOn THEN cdc.datasetSize ELSE 0,
                           ![e].pc = IF goesOn THEN "ManifestResolved"
                                     ELSE "Returned",
                           ![e].incFailure =
                              IF goesOn THEN @ ELSE @ + Deferred(err)]
              /\ snapFailure' = IF goesOn THEN snapFailure
                                ELSE snapFailure + Deferred(err)
  /\ UNCHANGED <<program, env, mainpc, maxDatasetSize, snapSuccess,
                 snapSizes, delivered>>

cachePolicySharedMessage(e) ==
  /\ program = "cache"
  /\ ex[e].pc = "ManifestResolved"
  /\ IF TooBig(ex[e].datasetSize, maxDatasetSize)
     THEN /\ ex' = [ex EXCEPT ![e].pc = "Returned",
                       ![e].incFailure = @ + Deferred(ex[e].err)]
          /\ snapFailure' = snapFailure + Deferred(ex[e].err)
     ELSE /\ \E f \in Execs :
               /\ ex[f].pc \in {"Decoded", "ManifestAnswered",
                                "ManifestResolved",
                                "ReplicationTriggered", "Returned"}
               /\ ex[f].sent # <<>>
               /\ ex' = [ex EXCEPT ![e].pc = "ReplicationTriggered",
                            ![e].sent = Append(@, TriggerURL(ex[f].cid))]
          /\ UNCHANGED snapFailure
  /\ UNCHANGED <<program, env, mainpc, maxDatasetSize, snapSuccess,
                 snapSizes, delivered>>

\* the size check, then http.Post of the trigger
cachePolicy(e) ==
  /\ program = "cache"
  /\ ex[e].pc = "ManifestResolved"
  /\ IF TooBig(ex[e].datasetSize, maxDatasetSize)
     THEN /\ ex' = [ex EXCEPT ![e].pc = "Returned",
                       ![e].incFailure = @ + Deferred(ex[e].err)]
          /\ snapFailure' = snapFailure + Deferred(ex[e].err)
     ELSE /\ ex' = [ex EXCEPT ![e].pc = "ReplicationTriggered",
                       ![e].sent = Append(@, TriggerURL(ex[e].cid))]
          /\ UNCHANGED snapFailure
  /\ UNCHANGED <<program, env, mainpc, maxDatasetSize, snapSuccess,
                 snapSizes, delivered>>

cacheTriggerCountsBoth(e) ==
  /\ program = "cache"
  /\ ex[e].pc = "ReplicationTriggered"
  /\ \E r \in TriggerResponses :
       LET err == IF r.transport # "ok" THEN "post" ELSE "nil"
           ok  == r.transport = "ok" /\ r.status = StatusOK
       IN  /\ ex' = [ex EXCEPT ![e].err = err,
                        ![e].respStatus = r.status,
                        ![e].pc = "Returned",
                        ![e].incSuccess = IF ok THEN @ + 1 ELSE @,
                        ![e].incFailure = @ + 1]
           /\ snapSuccess' = IF ok THEN snapSuccess + 1 ELSE snapSuccess
           /\ snapFailure' = snapFailure + 1
  /\ UNCHANGED <<program, env, mainpc, maxDatasetSize, snapSizes, delivered>>

\* the trigger answer
cacheTrigger(e) ==
  /\ program = "cache"
  /\ ex[e].pc = "ReplicationTriggered"
  /\ \E r \in TriggerResponses :
       LET err == IF r.transport # "ok" THEN "post" ELSE "nil"
           ok  == r.transport = "ok" /\ r.status = StatusOK
       IN  /\ ex' = [ex EXCEPT ![e].err = err,
                        ![e].respStatus = r.status,
                        ![e].pc = "Returned",
                        ![e].incSuccess = IF ok THEN @ + 1 ELSE @,
                        ![e].incFailure = IF ok THEN @ ELSE @ + Deferred(err)]
           /\ snapSuccess' = IF ok THEN snapSuccess + 1 ELSE snapSuccess
           /\ snapFailure' = IF ok THEN snapFailure
                             ELSE snapFailure + Deferred(err)
  /\ UNCHANGED <<program, env, mainpc, maxDatasetSize, snapSizes, delivered>>

\* -------------------------------------- part_001: Cache.OnNewEnvelope
\* json.Unmarshal of the payload, then http.Get of the manifest
OnNewEnvelopeDecode(e) ==
  /\ program = "OnNewEnvelope"
  /\ ex[e].pc = "Received"
  /\ LET cr == UnmarshalQakuMessage(Announcements[ex[e].payload])
     IN  IF cr.err # "nil"
         THEN /\ ex' = [ex EXCEPT ![e].err = cr.err, ![e].pc = "Returned",
                           ![e].incFailure = @ + Deferred(cr.err)]
              /\ snapFailure' = snapFailure + Deferred(cr.err)
         ELSE /\ ex' = [ex EXCEPT ![e].cid = cr.cid, ![e].pc = "Decoded",
                           ![e].sent = Append(@, ManifestURL(cr.cid))]
              /\ UNCHANGED snapFailure
  /\ UNCHANGED <<program, env, mainpc, maxDatasetSize, snapSuccess,
                 snapSizes, delivered>>

\* the answer to http.Get of the manifest: transport error or status
OnNewEnvelopeManifest(e) ==
  /\ program = "OnNewEnvelope"
  /\ ex[e].pc = "Decoded"
  /\ \E r \in ManifestResponses :
       LET err == IF r.transport # "ok" THEN "get"
                  ELSE IF r.status # StatusOK THEN "failed to fetch manifest"
                  ELSE "nil"
           goesOn == err = "nil"
       IN  /\ ex' = [ex EXCEPT ![e].err = err,
                        ![e].status = r.status,
                        ![e].pc = IF goesOn THEN "ManifestAnswered"
                                  ELSE "Returned",
                        ![e].incFailure =
                           IF goesOn THEN @ ELSE @ + Deferred(err)]
           /\ snapFailure' = IF goesOn THEN snapFailure
                             ELSE snapFailure + Deferred(err)
  /\ UNCHANGED <<program, env, mainpc, maxDatasetSize, snapSuccess,
                 snapSizes, delivered>>

\* io.ReadAll of the body of a 200 answer, then json.Unmarshal
OnNewEnvelopeReadAll(e) ==
  /\ program = "OnNewEnvelope"
  /\ ex[e].pc = "ManifestAnswered"
  /\ \E r \in ManifestResponses :
       /\ r.transport = "ok"
       /\ r.status = StatusOK
       /\ LET cdc == UnmarshalCodexDataContent(r.body)
              err == IF r.read # "ok" THEN "read" ELSE cdc.err
              goesOn == err = "nil"
          IN  /\ ex' = [ex EXCEPT ![e].err = err,
                           ![e].datasetSize =
                              IF goesOn THEN cdc.datasetSize ELSE 0,
                           ![e].pc = IF goesOn THEN "ManifestResolved"
                                     ELSE "Returned",
                           ![e].incFailure =
                              IF goesOn THEN @ ELSE @ + Deferred(err)]
              /\ snapFailure' = IF goesOn THEN snapFailure
                                ELSE snapFailure + Deferred(err)
  /\ UNCHANGED <<program, env, mainpc, maxDatasetSize, snapSuccess,
                 snapSizes, delivered>>

OnNewEnvelopePolicyHangs(e) ==
  /\ program = "OnNewEnvelope"
  /\ ex[e].pc = "ManifestResolved"
  /\ ~TooBig(ex[e].datasetSize, maxDatasetSize)
  /\ ex' = [ex EXCEPT ![e].pc = "ReplicationTriggered",
                ![e].observed = Append(@, Kilobytes(ex[e].datasetSize)),
                ![e].sent = Append(@, TriggerURL(ex[e].cid))]
  /\ snapSizes' = Observe(snapSizes, Kilobytes(ex[e].datasetSize))
  /\ UNCHANGED <<program, env, mainpc, maxDatasetSize, snapSuccess,
                 snapFailure, delivered>>

OnNewEnvelopePolicyAdapts(e) ==
  /\ program = "OnNewEnvelope"
  /\ ex[e].pc = "ManifestResolved"
  /\ IF TooBig(ex[e].datasetSize, maxDatasetSize)
     THEN /\ ex' = [ex EXCEPT ![e].pc = "Returned",
                       ![e].incFailure = @ + Deferred(ex[e].err)]
          /\ snapFailure' = snapFailure + Deferred(ex[e].err)
          /\ maxDatasetSize' = GoInt(ex[e].datasetSize)
          /\ UNCHANGED snapSizes
     ELSE /\ ex' = [ex EXCEPT ![e].pc = "ReplicationTriggered",
                       ![e].observed = Append(@, Kilobytes(ex[e].datasetSize)),
                       ![e].sent = Append(@, TriggerURL(ex[e].cid))]
          /\ snapSizes' = Observe(snapSizes, Kilobytes(ex[e].datasetSize))
          /\ UNCHANGED <<snapFailure, maxDatasetSize>>
  /\ UNCHANGED <<program, env, mainpc, snapSuccess, delivered>>

\* the size check, snapSizes.Observe, then http.Post of the trigger
OnNewEnvelopePolicy(e) ==
  /\ program = "OnNewEnvelope"
  /\ ex[e].pc = "ManifestResolved"
  /\ IF TooBig(ex[e].datasetSize, maxDatasetSize)
     THEN /\ ex' = [ex EXCEPT ![e].pc = "Returned",
                       ![e].incFailure = @ + Deferred(ex[e].err)]
          /\ snapFailure' = snapFailure + Deferred(ex[e].err)
          /\ UNCHANGED snapSizes
     ELSE /\ ex' = [ex EXCEPT ![e].pc = "ReplicationTriggered",
                       ![e].observed = Append(@, Kilobytes(ex[e].datasetSize)),
                       ![e].sent = Append(@, TriggerURL(ex[e].cid))]
          /\ snapSizes' = Observe(snapSizes, Kilobytes(ex[e].datasetSize))
          /\ UNCHANGED snapFailure
  /\ UNCHANGED <<program, env, mainpc, maxDatasetSize, snapSuccess, delivered>>

OnNewEnvelopeTriggerRetry(e) ==
  /\ program = "OnNewEnvelope"
  /\ ex[e].pc = "ReplicationTriggered"
  /\ \E r \in TriggerResponses :
       LET err == IF r.transport # "ok" THEN "post"
                  ELSE IF r.status # StatusOK THEN "request to Codex failed"
                  ELSE "nil"
           ok  == err = "nil"
           again == r.transport # "ok" /\ Len(ex[e].sent) < 3
       IN  /\ ex' = [ex EXCEPT ![e].err = IF again THEN "nil" ELSE err,
                        ![e].respStatus = r.status,
                        ![e].pc = IF again THEN "ReplicationTriggered"
                                  ELSE "Returned",
                        ![e].sent = IF again
                                    THEN Append(@, TriggerURL(ex[e].cid))
                                    ELSE @,
                        ![e].incSuccess = IF ok THEN @ + 1 ELSE @,
                        ![e].incFailure = IF ok \/ again THEN @
                                          ELSE @ + Deferred(err)]
           /\ snapSuccess' = IF ok THEN snapSuccess + 1 ELSE snapSuccess
           /\ snapFailure' = IF ok \/ again THEN snapFailure
                             ELSE snapFailure + Deferred(err)
  /\ UNCHANGED <<program, env, mainpc, maxDatasetSize, snapSizes, delivered>>

\* the trigger answer
OnNewEnvelopeTrigger(e) ==
  /\ program = "OnNewEnvelope"
  /\ ex[e].pc = "ReplicationTriggered"
  /\ \E r \in TriggerResponses :
       LET err == IF r.transport # "ok" THEN "post"
                  ELSE IF r.status # StatusOK THEN "request to Codex failed"
                  ELSE "nil"
           ok  == err = "nil"
       IN  /\ ex' = [ex EXCEPT ![e].err = err,
                        ![e].respStatus = r.status,
                        ![e].pc = "Returned",
                        ![e].incSuccess = IF ok THEN @ + 1 ELSE @,
                        ![e].incFailure = IF ok THEN @ ELSE @ + Deferred(err)]
           /\ snapSuccess' = IF ok THEN snapSuccess + 1 ELSE snapSuccess
           /\ snapFailure' = IF ok THEN snapFailure
                             ELSE snapFailure + Deferred(err)
  /\ UNCHANGED <<program, env, mainpc, maxDatasetSize, snapSizes, delivered>>

Next ==
  \/ Startup
  \/ MainLoop
  \/ MsgChanLoop
  \/ \E e \in Execs : cacheDecode(e)
  \/ \E e \in Execs : cacheManifest(e)
  \/ \E e \in Execs : cacheReadAll(e)
  \/ \E e \in Execs : cachePolicy(e)
  \/ \E e \in Execs : cacheTrigger(e)
  \/ \E e \in Execs : OnNewEnvelopeDecode(e)
  \/ \E e \in Execs : OnNewEnvelopeManifest(e)
  \/ \E e \in Execs : OnNewEnvelopeReadAll(e)
  \/ \E e \in Execs : OnNewEnvelopePolicy(e)
  \/ \E e \in Execs : OnNewEnvelopeTrigger(e)

Spec == Init /\ [][Next]_vars

\* ------------------------------------------------------------- fairness
\* number of envelopes delivered in the runs checked for progress
MaxLiveEnvelopes == 1

\* one step of invocation e, whichever handler runs
HandlerStep(e) ==
  \/ cacheDecode(e)
  \/ cacheManifest(e)
  \/ cacheReadAll(e)
  \/ cachePolicy(e)
  \/ cacheTrigger(e)
  \/ OnNewEnvelopeDecode(e)
  \/ OnNewEnvelopeManifest(e)
  \/ OnNewEnvelopeReadAll(e)
  \/ OnNewEnvelopePolicy(e)
  \/ OnNewEnvelopeTrigger(e)

LiveNext ==
  \/ Startup
  \/ (MainLoop /\ delivered < MaxLiveEnvelopes)
  \/ (MsgChanLoop /\ delivered < MaxLiveEnvelopes)
  \/ \E e \in Execs : HandlerStep(e)

\* the scheduler runs every runnable goroutine, and every storage-network
\* call that was issued is eventually answered
FairSpec ==
  /\ Init
  /\ [][LiveNext]_vars
  /\ \A e \in Execs : WF_vars(HandlerStep(e))

TypeOK ==
  /\ snapSuccess \in Nat
  /\ snapFailure \in Nat
  /\ IntLess(GoInt(0), maxDatasetSize)

\* ------------------------------------------------------------- properties
RECURSIVE SumOver(_, _)
SumOver(f, n) == IF n = 0 THEN 0 ELSE f[n] + SumOver(f, n - 1)

\* the counters hold what the invocations have recorded, nothing else
Accounting ==
  /\ snapSuccess = SumOver([e \in Execs |-> ex[e].incSuccess], MaxEnvelopes)
  /\ snapFailure = SumOver([e \in Execs |-> ex[e].incFailure], MaxEnvelopes)
  /\ snapSizes.count =
       SumOver([e \in Execs |-> Len(ex[e].observed)], MaxEnvelopes)

Returned(e) == ex[e].pc = "Returned"

\* the payload of invocation e, as delivered
PayloadOf(e) == Announcements[ex[e].payload]

\* JSON decoding into QakuMessage fails: not a JSON text, or a member of a
\* kind the Go field cannot take
Malformed(p) ==
  \/ p.syntax # "ok"
  \/ p.top \notin {"object", "null"}
  \/ p.payloadKind \notin {"object", "absent", "null"}
  \/ (p.payloadKind = "object" /\ p.cidKind \notin {"string", "absent", "null"})
  \/ ~p.restOk

\* the size the manifest of e reports is within the threshold
WithinThreshold(e) == ~IntLess(maxDatasetSize, GoInt(ex[e].datasetSize))

\* the manifest of e resolved (status 200, body decoded) with a size over
\* the threshold
Denied(e) ==
  /\ ex[e].pc \in {"ManifestResolved", "ReplicationTriggered", "Returned"}
  /\ ex[e].status = StatusOK
  /\ ~WithinThreshold(e)

\* the manifest of e resolved within the threshold
Permitted(e) ==
  /\ ex[e].pc \in {"ManifestResolved", "ReplicationTriggered", "Returned"}
  /\ ex[e].status = StatusOK
  /\ WithinThreshold(e)

Posts(e) == {i \in 1..Len(ex[e].sent) : ex[e].sent[i].method = "POST"}
Gets(e) == {i \in 1..Len(ex[e].sent) : ex[e].sent[i].method = "GET"}

\* the trigger of e was answered (transport error or a status)
TriggerAnswered(e) == Returned(e) /\ Posts(e) # {}

\* C1: an invocation whose payload decodes, whose manifest resolves with
\* status 200 and a size within the threshold and whose trigger is answered
\* with status 200 adds exactly 1 to the success counter and, in
\* OnNewEnvelope, makes exactly one size observation equal to
\* datasetSize / 1024.
C1_SuccessCounted ==
  /\ Accounting
  /\ \A e \in Execs :
       (Returned(e) /\ Permitted(e) /\ ex[e].respStatus = StatusOK) =>
          /\ ex[e].incSuccess = 1
          /\ program = "OnNewEnvelope" =>
               /\ Len(ex[e].observed) = 1
               /\ ex[e].observed[1].whole * 1024 + ex[e].observed[1].frac
                    = ex[e].datasetSize
               /\ ex[e].observed[1].frac < 1024

\* under the override 10485760 a dataset of 5242881 bytes was accepted; the
\* observation is 5120 + 1/1024 kilobytes, in the bucket up to 10000
C1_Witness ==
  \E e \in Execs :
     /\ program = "OnNewEnvelope"
     /\ Returned(e) /\ Permitted(e) /\ ex[e].respStatus = StatusOK
     /\ ex[e].cid = "zCID1"
     /\ ex[e].datasetSize = 5242881
     /\ ex[e].observed = << [whole |-> 5120, frac |-> 1] >>
     /\ snapSuccess = 1
     /\ snapSizes.buckets[7] = 1

\* C2: an invocation whose manifest resolved with datasetSize >
\* maxDatasetSize never issues the trigger POST, whatever the other
\* invocations do.
C2_NoTriggerWhenTooBig ==
  \A e \in Execs : Denied(e) => Posts(e) = {}

\* a denied invocation has returned while another one has its trigger in
\* flight
C2_Witness ==
  \E e, f \in Execs :
     /\ e # f
     /\ Returned(e) /\ Denied(e) /\ Len(ex[e].sent) = 1
     /\ ex[f].pc = "ReplicationTriggered"

\* C3: for a payload whose JSON decoding fails, the invocation issues no
\* manifest query and no trigger request, and the failure counter goes up by
\* exactly 1.
C3_MalformedPayload ==
  /\ Accounting
  /\ \A e \in Execs :
       (ex[e].pc \in {"Decoded", "ManifestAnswered", "ManifestResolved",
                      "ReplicationTriggered", "Returned"} /\ Malformed(PayloadOf(e))) =>
          /\ Returned(e)
          /\ ex[e].sent = <<>>
          /\ ex[e].incFailure = 1
          /\ ex[e].incSuccess = 0

\* scenario D: "not json" was handled; failure counter 1, nothing sent
C3_Witness ==
  \E e \in Execs :
     /\ Returned(e)
     /\ PayloadOf(e).syntax = "bad"
     /\ snapFailure = 1
     /\ \A f \in Execs : ex[f].sent = <<>>

\* C4: an invocation whose manifest query is answered with a status other
\* than 200 adds exactly 1 to the failure counter and never issues the
\* trigger request.
C4_ManifestStatusFailure ==
  /\ Accounting
  /\ \A e \in Execs :
       (Returned(e) /\ ex[e].status \notin {0, StatusOK}) =>
          /\ ex[e].incFailure = 1
          /\ Posts(e) = {}

\* C5: once decoding, manifest resolution and the size check have passed, a
\* trigger request that fails in transport or is answered with a status
\* other than 200 adds exactly 1 to the failure counter and leaves the
\* success counter alone.
C5_TriggerFailure ==
  /\ Accounting
  /\ \A e \in Execs :
       (TriggerAnswered(e) /\ ex[e].respStatus # StatusOK) =>
          /\ ex[e].incFailure = 1
          /\ ex[e].incSuccess = 0

\* C6: every invocation that has returned, on whatever branch, has added 1
\* to exactly one of the two counters.
C6_ExactlyOneCounter ==
  /\ Accounting
  /\ \A e \in Execs :
       Returned(e) => ex[e].incSuccess + ex[e].incFailure = 1

\* C7: an invocation denied by the size check leaves the success counter
\* alone and makes no size observation.
C7_DeniedNotSucceeded ==
  /\ Accounting
  /\ \A e \in Execs :
       Denied(e) => (ex[e].incSuccess = 0 /\ ex[e].observed = <<>>)

\* scenario B in OnNewEnvelope: 20000000 bytes, only the manifest query sent
C7_Witness ==
  \E e \in Execs :
     /\ program = "OnNewEnvelope"
     /\ Returned(e) /\ Denied(e)
     /\ ex[e].datasetSize = 20000000
     /\ snapSuccess = 0
     /\ snapSizes.count = 0

\* C8: an invocation whose manifest resolved with datasetSize >
\* maxDatasetSize does not add to the failure counter.
C8_DeniedNotFailed ==
  /\ Accounting
  /\ \A e \in Execs : Denied(e) => ex[e].incFailure = 0

\* a denied invocation has returned and the failure counter is still 0
C8_Witness ==
  \E e \in Execs :
     /\ Returned(e) /\ Denied(e)
     /\ ex[e].err = "nil"
     /\ snapFailure = 0
     /\ delivered = 1

\* C9: in OnNewEnvelope, once every invocation has returned, the number of
\* size observations equals the success counter.
C9_ObservedOnlyOnSuccess ==
  (program = "OnNewEnvelope" /\ \A e \in Execs : ~InFlight(e)) =>
     snapSizes.count = snapSuccess

\* C10: a well-formed payload whose payload.cid is absent or the empty
\* string fails decoding, and no manifest query and no trigger request is
\* issued for it.
C10_EmptyCidRejected ==
  \A e \in Execs :
     ( /\ ex[e].pc \in {"Decoded", "ManifestAnswered", "ManifestResolved",
                        "ReplicationTriggered", "Returned"}
       /\ PayloadOf(e).syntax = "ok"
       /\ PayloadOf(e).top = "object"
       /\ PayloadOf(e).payloadKind = "object"
       /\ \/ PayloadOf(e).cidKind = "absent"
          \/ (PayloadOf(e).cidKind = "string" /\ PayloadOf(e).cid = "") ) =>
        /\ Returned(e)
        /\ ex[e].err # "nil"
        /\ ex[e].sent = <<>>

\* an envelope on the configured topic has been handed over as number e
Started(e) == ex[e].pc # "idle" /\ ex[e].topic = contentTopic

\* invocation e went through decode, manifest, size check and trigger and
\* the trigger was acknowledged with 200
Succeeded(e) ==
  Returned(e) /\ Permitted(e) /\ ex[e].respStatus = StatusOK

\* C11: two invocations for the same valid announcement, one after the
\* other or interleaved, are both run in full: neither is skipped because
\* of the other, each sends its own manifest query and its own trigger
\* request, and when both triggers are acknowledged the success counter
\* has gone up by 2.
C11_NoDeduplication ==
  /\ Accounting
  /\ \A e, f \in Execs :
       (e # f /\ Started(e) /\ Started(f) /\ ex[e].payload = ex[f].payload) =>
          /\ ex[e].pc # "Skipped"
          /\ ex[f].pc # "Skipped"
          /\ (Succeeded(e) /\ Succeeded(f)) =>
                /\ ex[e].sent = <<ManifestURL(ex[e].cid), TriggerURL(ex[e].cid)>>
                /\ ex[f].sent = ex[e].sent
                /\ ex[e].incSuccess = 1
                /\ ex[f].incSuccess = 1
                /\ snapSuccess >= 2

\* the same announcement (cid zCID1) handled twice by concurrent goroutines,
\* both acknowledged
C11_Witness ==
  /\ program = "cache"
  /\ \E e, f \in Execs :
       /\ e # f
       /\ ex[e].payload = 1 /\ ex[f].payload = 1
       /\ Succeeded(e) /\ Succeeded(f)
       /\ Len(ex[e].sent) = 2 /\ Len(ex[f].sent) = 2
  /\ snapSuccess = 2

\* C12: an envelope delivered on a content topic other than contentTopic
\* never starts the handler: nothing is sent to the storage network for it
\* and it changes neither counter nor the histogram.
C12_OtherTopicIgnored ==
  /\ Accounting
  /\ \A e \in Execs :
       (ex[e].pc # "idle" /\ ex[e].topic # contentTopic) =>
          /\ ex[e].pc = "Skipped"
          /\ ex[e].sent = <<>>
          /\ ex[e].incSuccess = 0
          /\ ex[e].incFailure = 0
          /\ ex[e].observed = <<>>

\* the MsgChan loop has dropped an envelope of another topic and handled the
\* next one, which is on the configured topic
C12_Witness ==
  /\ program = "OnNewEnvelope"
  /\ \E e, f \in Execs :
       /\ e < f
       /\ ex[e].pc = "Skipped" /\ ex[e].topic = otherTopic
       /\ Returned(f) /\ ex[f].topic = contentTopic
  /\ snapSuccess + snapFailure <= 1

\* the string is an optionally signed, non-empty run of decimal digits
IsDecimal(s) ==
  LET digits == IF s # <<>> /\ Head(s) \in {"+", "-"} THEN Tail(s) ELSE s
  IN  digits # <<>> /\ \A i \in 1..Len(digits) : digits[i] \in DigitChars

\* the number a run of decimal digits denotes, after acc
RECURSIVE DecimalValue(_, _)
DecimalValue(digits, acc) ==
  IF digits = <<>> THEN acc
  ELSE DecimalValue(Tail(digits), MulAdd(acc, DigitVal(Head(digits))))

PositiveValue(s) ==
  DecimalValue(IF Head(s) = "+" THEN Tail(s) ELSE s, GoInt(0))

\* the string denotes an integer n > 0 that an int can hold
ParsesPositive(s) ==
  /\ IsDecimal(s)
  /\ Head(s) # "-"
  /\ IntLess(GoInt(0), PositiveValue(s))
  /\ ~IntLess(MaxInt, PositiveValue(s))

\* C13: once main has read QAKU_CACHE_MAX_SIZE, maxDatasetSize is > 0; it
\* is the override when the override parses to a positive integer and the
\* default 5242880 for every other value (unset, unparsable, zero,
\* negative).
C13_ThresholdFromEnv ==
  mainpc = "loop" =>
     /\ IntLess(GoInt(0), maxDatasetSize)
     /\ IF ParsesPositive(env)
        THEN maxDatasetSize = PositiveValue(env)
        ELSE maxDatasetSize = GoInt(defaultMaxSize)

\* the manifest query of e was answered with 200 and a body that decoded
Resolved(e) ==
  \/ ex[e].pc \in {"ManifestResolved", "ReplicationTriggered"}
  \/ /\ Returned(e)
     /\ ex[e].status = StatusOK
     /\ ex[e].err \notin {"read", "unmarshal manifest"}

\* C14: once the size check of an invocation with a resolved manifest has
\* run, the trigger request has been issued if and only if datasetSize <=
\* maxDatasetSize; a dataset exactly as large as the threshold is permitted.
C14_PermitIffWithinThreshold ==
  \A e \in Execs :
     (Resolved(e) /\ ex[e].pc \in {"ReplicationTriggered", "Returned"}) =>
        (Posts(e) # {} <=> WithinThreshold(e))

\* a dataset of exactly maxDatasetSize bytes has been triggered
C14_Witness ==
  \E e \in Execs :
     /\ Resolved(e)
     /\ GoInt(ex[e].datasetSize) = maxDatasetSize
     /\ maxDatasetSize = GoInt(defaultMaxSize)
     /\ ex[e].sent = <<ManifestURL("zCID2"), TriggerURL("zCID2")>>

\* the manifest query of e failed in transport, or was answered with 200 and
\* a body that could not be read or decoded
ManifestUnusable(e) ==
  \/ ex[e].err = "get"
  \/ (ex[e].status = StatusOK /\ ex[e].err \in {"read", "unmarshal manifest"})

\* C15: an invocation whose manifest query fails in transport, or is
\* answered with 200 and a body that does not decode, ends with the failure
\* counter increased by exactly 1 and without a trigger request.
C15_ManifestUnusableFails ==
  /\ Accounting
  /\ \A e \in Execs :
       ManifestUnusable(e) =>
          /\ Returned(e)
          /\ ex[e].incFailure = 1
          /\ ex[e].incSuccess = 0
          /\ ex[e].sent = <<ManifestURL(ex[e].cid)>>

\* one invocation got an undecodable 200 body, another a transport failure
C15_Witness ==
  \E e, f \in Execs :
     /\ Returned(e) /\ ex[e].status = StatusOK
     /\ ex[e].err = "unmarshal manifest"
     /\ Returned(f) /\ ex[f].err = "get"
     /\ snapFailure = 2

\* C16: an invocation sends nothing when decoding fails, the manifest query
\* alone when the size check denies, and the manifest query followed by the
\* trigger request when it permits; the trigger is sent only after the
\* manifest query of the same invocation was answered.
C16_CallsInOrder ==
  \A e \in Execs :
     LET n == Len(ex[e].sent)
         getFirst == /\ ex[e].sent[1].method = "GET"
                     /\ ex[e].sent[1].path = "network/manifest"
                     /\ ex[e].sent[1].cid = ex[e].cid
         postSecond == /\ ex[e].sent[2].method = "POST"
                       /\ ex[e].sent[2].path = "network"
                       /\ ex[e].sent[2].cid = ex[e].cid
     IN  /\ n <= 2
         /\ n >= 1 => getFirst
         /\ n = 2 => (postSecond /\ ex[e].status = StatusOK /\ Resolved(e))
         /\ (Started(e) /\ Malformed(PayloadOf(e))) => n = 0
         /\ (Returned(e) /\ Denied(e)) => n = 1
         /\ (Returned(e) /\ Resolved(e)
               /\ WithinThreshold(e)) => n = 2

\* one invocation was permitted and made two calls, another was denied and
\* made one
C16_Witness ==
  \E e, f \in Execs :
     /\ Returned(e) /\ Resolved(e) /\ Len(ex[e].sent) = 2
     /\ ex[e].sent[1].method = "GET" /\ ex[e].sent[2].method = "POST"
     /\ Returned(f) /\ Denied(f) /\ Len(ex[f].sent) = 1

\* delivery of the next envelope by whichever loop runs
Deliver == MainLoop \/ MsgChanLoop

\* C17: the subscription loop does not wait for a handler: while an earlier
\* invocation is still in flight the loop can take and start the next
\* envelope.
C17_LoopDoesNotSerialize ==
  (mainpc = "loop" /\ delivered < MaxEnvelopes /\ \E e \in Execs : InFlight(e))
     => ENABLED Deliver

\* the content identifier json.Unmarshal puts into cr.Payload.CID for the
\* announcement of invocation e
OwnCid(e) ==
  IF PayloadOf(e).payloadKind = "object" /\ PayloadOf(e).cidKind = "string"
  THEN PayloadOf(e).cid ELSE ""

\* What invocation e has been given is its announcement and the answers to
\* its own calls (status, datasetSize, respStatus, the error of a call), and
\* it reads the program and the threshold set at startup.  The three
\* definitions below say what it must have sent and recorded, from those
\* alone: they mention no other invocation.

\* the calls of e: none before decoding or for a payload that does not
\* decode, the manifest query for its own cid, and the trigger for its own
\* cid once its own manifest resolved within the threshold
OwnCalls(e) ==
  LET get  == [method |-> "GET", cid |-> OwnCid(e), path |-> "network/manifest"]
      post == [method |-> "POST", cid |-> OwnCid(e), path |-> "network"]
  IN  IF \/ ~Started(e)
         \/ ex[e].pc = "Received"
         \/ Malformed(PayloadOf(e))
      THEN <<>>
      ELSE IF \/ ex[e].pc = "ReplicationTriggered"
              \/ (Returned(e) /\ Resolved(e) /\ WithinThreshold(e))
      THEN <<get, post>>
      ELSE <<get>>

\* the fault delivered to e by one of its own calls: the transport error of
\* the query or of the trigger, the read error or the undecodable body of the
\* manifest answer
OwnFault(e) ==
  IF ex[e].err \in {"get", "read", "unmarshal manifest", "post"}
  THEN ex[e].err ELSE "nil"

\* the error e returns with: of its own payload, of its own calls, and in
\* OnNewEnvelope of the status of its own manifest and trigger answers
OwnErr(e) ==
  IF ~Returned(e) THEN "nil"
  ELSE IF Malformed(PayloadOf(e)) THEN "unmarshal"
  ELSE IF OwnFault(e) # "nil" THEN OwnFault(e)
  ELSE IF ex[e].status # StatusOK
       THEN IF program = "OnNewEnvelope" THEN "failed to fetch manifest"
            ELSE "nil"
  ELSE IF ~WithinThreshold(e) THEN "nil"
  ELSE IF ex[e].respStatus # StatusOK /\ program = "OnNewEnvelope"
       THEN "request to Codex failed"
  ELSE "nil"

\* the counter change of e: a failure when it returned with an error, a
\* success when its own trigger was acknowledged with 200
OwnCounters(e) ==
  [failure |-> IF Returned(e) /\ OwnErr(e) # "nil" THEN 1 ELSE 0,
   success |-> IF /\ Returned(e)
                  /\ Len(OwnCalls(e)) = 2
                  /\ OwnFault(e) = "nil"
                  /\ ex[e].respStatus = StatusOK
               THEN 1 ELSE 0]

\* the size observations of e: its own datasetSize, once, when
\* OnNewEnvelope has sent the trigger
OwnObserved(e) ==
  IF program = "OnNewEnvelope" /\ Len(OwnCalls(e)) = 2
  THEN << [whole |-> ex[e].datasetSize \div 1024,
           frac  |-> ex[e].datasetSize % 1024] >>
  ELSE <<>>

\* in every state, whatever was delivered before or runs concurrently and
\* however it ended, each invocation has sent and recorded what its own
\* announcement and answers give, and the counters are the sum of those
\* contributions: the run in which a failing announcement was not delivered
\* gives the other invocations the same outcome, counter change and calls
C18_OutcomeByOwnInputs ==
  /\ Accounting
  /\ \A e \in Execs :
       /\ ex[e].sent = OwnCalls(e)
       /\ ex[e].err = OwnErr(e)
       /\ ex[e].incFailure = OwnCounters(e).failure
       /\ ex[e].incSuccess = OwnCounters(e).success
       /\ ex[e].observed = OwnObserved(e)
       /\ ex[e].cid = IF OwnCalls(e) = <<>> THEN "" ELSE OwnCid(e)

\* the comparison between invocations: two that returned on the same
\* announcement and the same answers have the same calls, outcome and
\* counter change, whichever of them ran after or beside a failed one
C18_SameInputsSameOutcome ==
  \A e, f \in Execs :
     ( /\ Returned(e) /\ Returned(f)
       /\ ex[e].topic = ex[f].topic
       /\ ex[e].payload = ex[f].payload
       /\ ex[e].status = ex[f].status
       /\ ex[e].datasetSize = ex[f].datasetSize
       /\ ex[e].respStatus = ex[f].respStatus
       /\ OwnFault(e) = OwnFault(f) )
     => /\ ex[e].sent = ex[f].sent
        /\ ex[e].err = ex[f].err
        /\ ex[e].observed = ex[f].observed
        /\ ex[e].incSuccess = ex[f].incSuccess
        /\ ex[e].incFailure = ex[f].incFailure

\* an invocation that was started is processed whatever the others did:
\* its next step can be taken, and the loop takes the next envelope after
\* failures (in OnNewEnvelope once the running call has returned)
C18_StillProcessed ==
  /\ \A e \in Execs : InFlight(e) => ENABLED HandlerStep(e)
  /\ (mainpc = "loop" /\ delivered < MaxEnvelopes
        /\ \A e \in Execs : ~InFlight(e)) => ENABLED Deliver

\* a step of one invocation changes no other invocation
C18_OthersUntouched ==
  \A e, f \in Execs : (e # f /\ ex'[e] # ex[e]) => ex'[f] = ex[f]

\* C18: a failed invocation leaves the others alone.  For any sequence or
\* interleaving, when one invocation ends in a decode, manifest or trigger
\* error every other announcement is still processed, and its outcome,
\* counter change and calls are those its own announcement and answers
\* give, the same as in the run without the failing announcement.
C18_FailureIsolated ==
  /\ []C18_OutcomeByOwnInputs
  /\ []C18_SameInputsSameOutcome
  /\ []C18_StillProcessed
  /\ [][C18_OthersUntouched]_vars

\* an invocation failed on a 404 and a later one for the same cid succeeded
C18_Witness ==
  /\ program = "OnNewEnvelope"
  /\ \E e, f \in Execs :
       /\ e < f
       /\ Returned(e) /\ ex[e].status = 404 /\ ex[e].incFailure = 1
       /\ Succeeded(f) /\ ex[f].cid = ex[e].cid
  /\ snapSuccess = 1
  /\ snapFailure = 1

\* C19: no retries.  An invocation sends at most one manifest query and at
\* most one trigger request; once it has an error or a non-200 answer it has
\* returned, and an invocation that has returned does nothing more.
C19_AtMostOnce ==
  \A e \in Execs :
     /\ Cardinality(Gets(e)) <= 1
     /\ Cardinality(Posts(e)) <= 1
     /\ ex[e].err # "nil" => Returned(e)
     /\ ex[e].status \notin {0, StatusOK} => Returned(e)
     /\ ex[e].respStatus \notin {0, StatusOK} => Returned(e)

C19_ReturnedIsFinal ==
  \A e \in Execs : Returned(e) => ex'[e] = ex[e]

C19_NoRetries == []C19_AtMostOnce /\ [][C19_ReturnedIsFinal]_vars

\* a trigger request failed in transport and was not repeated
C19_Witness ==
  \E e \in Execs :
     /\ Returned(e)
     /\ ex[e].err = "post"
     /\ ex[e].sent = <<ManifestURL(ex[e].cid), TriggerURL(ex[e].cid)>>
     /\ program = "OnNewEnvelope"

\* C20: with a fair scheduler and storage-network calls that are answered,
\* every invocation started for an envelope on the topic eventually returns.
C20_EventuallyReturned ==
  \A e \in Execs : InFlight(e) ~> Returned(e)

\* an invocation denied by the size check has returned
C20_Witness ==
  \E e \in Execs :
     /\ Returned(e) /\ Denied(e)
     /\ program = "OnNewEnvelope"
     /\ \A f \in Execs : ~InFlight(f)

\* the threshold main leaves behind: the override when strconv.Atoi gives a
\* value > 0, the initial value of the package variable otherwise
StartupThreshold ==
  LET maxSizeFromEnv == Atoi(env).value
  IN  IF IntLess(GoInt(0), maxSizeFromEnv) THEN maxSizeFromEnv
      ELSE GoInt(defaultMaxSize)

\* every size check made so far agrees with the threshold set at startup
C21_SameThreshold ==
  LET threshold == StartupThreshold
  IN  /\ mainpc = "loop" => maxDatasetSize = threshold
      /\ \A e \in Execs :
           (Resolved(e) /\ ex[e].pc \in {"ReplicationTriggered", "Returned"}) =>
              (Posts(e) # {} <=>
                 ~IntLess(threshold, GoInt(ex[e].datasetSize)))

\* once main has entered its loop no step writes maxDatasetSize
C21_NoWrite == mainpc = "loop" => maxDatasetSize' = maxDatasetSize

\* C21: the threshold is read-only after startup: no step of any invocation,
\* on any branch and in any interleaving, changes maxDatasetSize, so every
\* size check of a run is made against the one threshold main has set.
C21_ThresholdReadOnly == []C21_SameThreshold /\ [][C21_NoWrite]_vars

\* under the override 10485760 one invocation was denied (20000000 bytes)
\* and a later one permitted (5242881 bytes, over the default), both
\* returned, and the threshold is still the override
C21_Witness ==
  /\ maxDatasetSize = GoInt(10485760)
  /\ \E e, f \in Execs :
       /\ e < f
       /\ Returned(e) /\ Denied(e) /\ ex[e].datasetSize = 20000000
       /\ Returned(f) /\ Resolved(f) /\ ex[f].datasetSize = 5242881
       /\ Len(ex[f].sent) = 2

\* the envelopes on the configured topic handed over so far
StartedExecs == {e \in Execs : Started(e)}

\* each invocation has added at most 1 to the two counters together, and
\* the counters together do not exceed the number of invocations started
C22_AtMostOne ==
  /\ Accounting
  /\ \A e \in Execs :
       /\ ex[e].incSuccess + ex[e].incFailure <= 1
       /\ ~Started(e) => ex[e].incSuccess + ex[e].incFailure = 0
  /\ snapSuccess + snapFailure <= Cardinality(StartedExecs)

\* no step lowers a counter
C22_Monotone == snapSuccess' >= snapSuccess /\ snapFailure' >= snapFailure

\* C22: no invocation increments both counters: in every reachable state,
\* under any interleaving, each announcement has added at most 1 to
\* snapSuccess + snapFailure, so their sum never exceeds the number of
\* announcements whose invocation has started, and neither counter ever
\* decreases.
C22_CountersDisjoint == []C22_AtMostOne /\ [][C22_Monotone]_vars

\* two concurrent invocations, the earlier one failed on its trigger after
\* the later one had succeeded: each counter is 1, two were started
C22_Witness ==
  /\ program = "cache"
  /\ \E e, f \in Execs :
       /\ e < f
       /\ Returned(e) /\ ex[e].err = "post"
       /\ ex[e].incFailure = 1 /\ ex[e].incSuccess = 0
       /\ Succeeded(f) /\ ex[f].incSuccess = 1 /\ ex[f].incFailure = 0
  /\ snapSuccess = 1 /\ snapFailure = 1
  /\ Cardinality(StartedExecs) = 2

\* C23: within one invocation the trigger request targets the content
\* identifier of that invocation's manifest query, which is the cid
\* decoded from its own announcement; with several invocations in flight
\* for different identifiers, a trigger is issued only for an identifier
\* whose manifest that same invocation resolved with status 200 and a size
\* <= maxDatasetSize.
C23_TriggerForOwnCid ==
  \A e \in Execs :
     /\ \A i \in 1..Len(ex[e].sent) : ex[e].sent[i].cid = OwnCid(e)
     /\ \A i \in Posts(e) :
          /\ \E j \in Gets(e) :
               /\ j < i
               /\ ex[e].sent[j].path = "network/manifest"
               /\ ex[e].sent[j].cid = ex[e].sent[i].cid
          /\ Resolved(e)
          /\ ex[e].status = StatusOK
          /\ WithinThreshold(e)

\* two concurrent invocations for zCID1 and zCID2: the first has its
\* trigger for zCID1 in flight while the second, started later, has already
\* been denied, and nothing was posted for zCID2
C23_Witness ==
  /\ program = "cache"
  /\ \E e, f \in Execs :
       /\ e < f
       /\ ex[e].pc = "ReplicationTriggered"
       /\ ex[e].sent = << [method |-> "GET", cid |-> "zCID1",
                           path |-> "network/manifest"],
                          [method |-> "POST", cid |-> "zCID1",
                           path |-> "network"] >>
       /\ Returned(f) /\ Denied(f)
       /\ ex[f].sent = << [method |-> "GET", cid |-> "zCID2",
                           path |-> "network/manifest"] >>
====
